---- MODULE Spec2Model ----
(***************************************************************************)
(* Benchmarkify: a batch driver for a cost-metered GraphQL API.            *)
(*                                                                         *)
(* The repository holds two generations of the server in one file:         *)
(*   variant "fetch"  : src/server.js lines 1-1905    (global fetch,       *)
(*                      calibrated batch configuration)                    *)
(*   variant "client" : src/server.js lines 1907-3324 (graphql-request's   *)
(*                      client.request, batch configuration from the body) *)
(* and a corrected delete endpoint for the first generation in             *)
(* src/delete_endpoint_fixed.js (endpoint "deleteFixed").                  *)
(*                                                                         *)
(* One benchmark run at a time is modelled; the requests of a batch are    *)
(* in flight concurrently and are answered in any order.                   *)
(***************************************************************************)
EXTENDS Integers, Sequences, FiniteSets, TLC

(***************************************************************************)
(* Bounds of the model.                                                    *)
(***************************************************************************)
MaxProducts == 3   \* products the store can hold
MaxCount == 3      \* largest count a request body carries
MaxFaults == 4       \* failed answers the remote gives to a single request
MaxBatchFaults == 1  \* failed answers the remote gives during a benchmark run
MaxRuns == 1       \* endpoint requests per behaviour
MaxAuditRuns == 2  \* endpoint requests per behaviour when the audit summary is studied
MaxLeakRate == 2000     \* largest leak rate a calibration reports (points per second)
MaxRequested == 1000001 \* largest count of a request body where the clamp is studied
MaxResults == 3         \* longest result list where the metrics are studied
MaxClock == 26          \* hours the clock of the server advances
MaxTrendRuns == 11      \* requests logged while the trend of the usage is studied
MaxBatches == 4         \* batches of a run whose batch size is taken from any request body

SessionIds == {"s1", "s2"}
\* access tokens a client may hand in
AccessTokens == {"shpat_1", "shpat_2"}
NoEntry == [stored |-> FALSE, timestamp |-> 0, storeUrl |-> "", accessToken |-> ""]

Products == 1..MaxProducts
Slots == 0..(MaxCount - 1)
CountChoices == {0, 1, MaxCount}
\* batchSize and delayBetweenBatches of a request body (client generation)
ConfigChoices == { [batchSize |-> 1, delay |-> 100],
                   [batchSize |-> 2, delay |-> 6000],
                   [batchSize |-> 2, delay |-> 12000] }

\* contents of the store when the server starts
StoreChoices ==
  { [p \in Products |-> "absent"],
    [p \in Products |-> "tagged"],
    [p \in Products |-> IF p % 2 = 1 THEN "tagged" ELSE "plain"] }

Min(a, b) == IF a <= b THEN a ELSE b
Max(a, b) == IF a >= b THEN a ELSE b

\* the count is not raised to 1
ClampCountNoFloor(cnt, ceiling) == Min(cnt, ceiling)

\* the count is floored at 1 but not capped
ClampCountNoCeiling(cnt, ceiling) == Max(1, cnt)

\* Math.min(Math.max(1, count), ceiling)
ClampCount(cnt, ceiling) == Min(Max(1, cnt), ceiling)

VARIABLES
  variant,              \* which generation of the server is running
  store,                \* the remote store: product id -> "absent" | "tagged" | "plain"
  storedIds,            \* product ids remembered from creation logs
  pc,                   \* position of the endpoint handler
  endpoint,             \* endpoint the current run serves
  count,                \* count of the request body
  calibratedLeakRate,   \* const leakRate of the calibrated handler (0: not calibrated)
  batchSize,            \* const batchSize of the handler
  delayBetweenBatches,  \* const delayBetweenBatches of the handler
  numProducts,          \* numProducts / updateCount / deleteCount
  products,             \* products / productsToDelete: the target list
  batchStart,           \* loop variable
  reqs,                 \* one entry per handleGraphQLRequest call in progress
  results,              \* results array of the handler
  sleeps,               \* inter-batch sleeps performed by the run, in ms
  batches,              \* sizes of the batches dispatched by the run
  response,             \* HTTP response of the run
  operations,           \* auditLog.operations
  rateLimitHistory,     \* auditLog.rateLimitHistory
  summary,              \* auditLog.summary
  summaryFresh,         \* no entry has been logged since the summary was last computed
  issued,               \* update/delete mutations sent: <<operation, product, tag state>>
  retryCount,           \* retryCount of the product search of the corrected delete endpoint
  searchWaits,          \* waits between the attempts of that search, in ms
  runs,                 \* requests the server is still going to receive
  faults,               \* failed answers the remote is still going to give
  storedCredentials,    \* storedCredentials: session id -> entry
  now,                  \* Date.now(), in hours since the server started
  lastGet,              \* what the last GET /api/stored-credentials/:sessionId found and answered
  removed,              \* entries deleted from storedCredentials: <<session id, timestamp>>
  driver                \* the browser page: where startBenchmark stands and what it shows

vars == <<variant, store, storedIds, pc, endpoint, count, batchSize,
          delayBetweenBatches, numProducts, products, batchStart, reqs,
          results, sleeps, batches, response, operations, rateLimitHistory,
          summary, summaryFresh, issued, retryCount, searchWaits, runs,
          faults, calibratedLeakRate, storedCredentials, now, lastGet,
          removed, driver>>

runVars == <<endpoint, count, calibratedLeakRate, batchSize, delayBetweenBatches,
             numProducts, products, batchStart, retryCount, searchWaits>>
credVars == <<storedCredentials, now, lastGet, removed>>
auditVars == <<operations, rateLimitHistory, summary, summaryFresh>>

(***************************************************************************)
(* The remote API.                                                         *)
(***************************************************************************)
\* throttleStatus values the remote reports in extensions.cost: 20% and
\* 95% of the bucket used, and a bucket of capacity 0
ThrottleChoices ==
  << [max |-> 1000,  avail |-> 800,  restore |-> 100,  actual |-> 0],
     [max |-> 20000, avail |-> 1000, restore |-> 2000, actual |-> 10],
     [max |-> 0,     avail |-> 0,    restore |-> 0,    actual |-> 0] >>

\* values of the x-shopify-shop-api-call-limit header, "current/limit"
\* and of the x-shopify-graphql-query-cost header (0: header absent)
HeaderChoices == << [cur |-> 60, lim |-> 100, cost |-> 0],
                    [cur |-> 95, lim |-> 100, cost |-> 0] >>

\* answers out of the ordinary: failures, and reports of a bucket of
\* capacity 0
Abnormal(r) ==
  \/ r.kind # "ok"
  \/ (r.throttle # 0 /\ ThrottleChoices[r.throttle].max = 0)

OkResponses ==
  [kind : {"ok"}, status : {200}, throttle : 0..Len(ThrottleChoices),
   hdr : 0..Len(HeaderChoices), retryAfter : {0}]

FailResponses ==
  [kind : {"http"}, status : {429}, throttle : {0}, hdr : {0}, retryAfter : {0, 2}]
    \cup [kind : {"http"}, status : {500}, throttle : {0},
          hdr : 0..Len(HeaderChoices), retryAfter : {0}]
    \cup [kind : {"gql"}, status : {200}, throttle : {0}, hdr : {0}, retryAfter : {0}]
    \cup [kind : {"network"}, status : {0}, throttle : {0}, hdr : {0}, retryAfter : {0}]

\* Responses that the given server generation can tell apart.  The fetch
\* generation reads the throttle status or, without one, the header of a
\* successful answer, and nothing of a failed one; the client generation
\* reads nothing of a successful answer and the header of a failed one.
Responses(v) ==
  IF v = "fetch"
    THEN {r \in OkResponses : (r.throttle # 0 /\ r.hdr = 0)
                                 \/ (r.throttle = 0 /\ r.hdr = 1)}
           \cup {r \in FailResponses : r.hdr = 0 /\ r.retryAfter = 0}
    ELSE {r \in OkResponses : r.throttle = 0 /\ r.hdr = 0}
           \cup {r \in FailResponses : r.hdr # 1}

(***************************************************************************)
(* handleGraphQLRequest.                                                   *)
(***************************************************************************)
\* QUERY_COSTS[operationName] || 0
QUERY_COSTS(op) ==
  CASE op \in {"createProduct", "updateProduct", "deleteProduct"} -> 10
    [] op = "getProducts" -> 1
    [] OTHER -> 0

\* what the remote answered, as the attempt sees it
AnswerOf(r) ==
  CASE r.kind = "http" /\ r.status = 429 -> "429"
    [] r.kind = "http" -> "5xx"
    [] OTHER -> r.kind

\* the message of the error is lost
EmptyErrorMessage(r) == ""

\* error.message of the error the request ends with
ErrorMessage(r) ==
  CASE r.kind = "http" /\ r.status = 429 -> "HTTP 429"
    [] r.kind = "http" -> "HTTP 500"
    [] r.kind = "gql" -> "GraphQL errors"
    [] OTHER -> "fetch failed"

\* usagePercentage = (current / limit) * 100, for the whole percentages the
\* remote is modelled to report
\* 0 / 0 is NaN
NaN == -1

\* usagePercentage = (current / limit) * 100, for the whole percentages the
\* remote is modelled to report; unguarded, so NaN for a limit of 0
UsagePct(cur, lim) == IF lim = 0 THEN NaN ELSE (cur * 100) \div lim

NoResult ==
  [success |-> FALSE, error |-> "", cost |-> 0, hasRL |-> FALSE, cur |-> 0,
   lim |-> 0, leak |-> 0, data |-> <<>>, attempts |-> 0, responseTime |-> 0]

\* Date.now() - startTime of an attempt, in milliseconds: the remote is
\* modelled to take a time that depends on what it answers
Elapsed(r) ==
  IF r.kind = "ok" THEN 200 + 50 * r.throttle + 25 * r.hdr ELSE 50

NoReq ==
  [st |-> "none", op |-> "", target |-> 0, withUrl |-> FALSE, attempts |-> 0,
   wait |-> 0, answered |-> "", result |-> NoResult]

NewReq(op, target, withUrl) ==
  [st |-> "inflight", op |-> op, target |-> target, withUrl |-> withUrl,
   attempts |-> 1, wait |-> 0, answered |-> "", result |-> NoResult]

\* the snapshot from the extensions reports the capacity as remaining
SuccessRateLimitRemainingIsLimit(op, r) ==
  IF r.throttle # 0
    THEN LET t == ThrottleChoices[r.throttle]
         IN [cur |-> t.max - t.avail, lim |-> t.max, remaining |-> t.max,
             leak |-> t.restore,
             cost |-> IF t.actual # 0 THEN t.actual ELSE QUERY_COSTS(op)]
    ELSE IF r.hdr # 0
      THEN LET h == HeaderChoices[r.hdr]
           IN [cur |-> h.cur, lim |-> h.lim, remaining |-> h.lim - h.cur,
               leak |-> 0,
               cost |-> IF h.cost # 0 THEN h.cost ELSE QUERY_COSTS(op)]
      ELSE [cur |-> 0, lim |-> 100, remaining |-> 100, leak |-> 0,
            cost |-> QUERY_COSTS(op)]

\* rateLimitInfo of a successful response of the fetch generation:
\* extensions first, then the call-limit header, then the defaults
SuccessRateLimitFetch(op, r) ==
  IF r.throttle # 0
    THEN LET t == ThrottleChoices[r.throttle]
         IN [cur |-> t.max - t.avail, lim |-> t.max, remaining |-> t.avail,
             leak |-> t.restore,
             cost |-> IF t.actual # 0 THEN t.actual ELSE QUERY_COSTS(op)]
    ELSE IF r.hdr # 0
      THEN LET h == HeaderChoices[r.hdr]
           IN [cur |-> h.cur, lim |-> h.lim, remaining |-> h.lim - h.cur,
               leak |-> 0,
               cost |-> IF h.cost # 0 THEN h.cost ELSE QUERY_COSTS(op)]
      ELSE [cur |-> 0, lim |-> 100, remaining |-> 100, leak |-> 0,
            cost |-> QUERY_COSTS(op)]

\* rateLimitInfo of the catch block: the defaults unless error.response
\* carries headers with a call limit.  The errors of the fetch generation
\* are plain Error objects: they never carry a response.
FailureRateLimit(v, op, r) ==
  IF v = "client" /\ r.kind = "http" /\ r.hdr # 0
    THEN LET h == HeaderChoices[r.hdr]
         IN [cur |-> h.cur, lim |-> h.lim, remaining |-> h.lim - h.cur,
             leak |-> 0,
             cost |-> IF h.cost # 0 THEN h.cost ELSE QUERY_COSTS(op)]
    ELSE [cur |-> 0, lim |-> 1000, remaining |-> 1000, leak |-> 0,
          cost |-> QUERY_COSTS(op)]

\* every HTTP error of the client generation is taken for a rate limit
RetryAnyHttpError(v, r) == v = "client" /\ r.kind = "http"

\* error.response?.status === 429: only graphql-request's ClientError has a
\* response; the Error thrown after fetch for a non-2xx status has none.
IsRateLimitError(v, r) == v = "client" /\ r.kind = "http" /\ r.status = 429

\* One attempt of handleGraphQLRequest, from the answer of the remote to
\* either the returned result or the wait before the recursive call.
handleGraphQLRequest(v, q, r, data) ==
  IF r.kind = "ok"
    THEN LET rl == IF v = "fetch"
                     THEN SuccessRateLimitFetch(q.op, r)
                     ELSE [cur |-> 0, lim |-> 1000, remaining |-> 1000,
                           leak |-> 0, cost |-> QUERY_COSTS(q.op)]
         IN [retry |-> FALSE, waitSec |-> 0,
             log |-> [action |-> q.op, success |-> TRUE, cost |-> rl.cost,
                      error |-> "", hasRL |-> TRUE],
             sampled |-> q.withUrl,
             sample |-> [cur |-> rl.cur, lim |-> rl.lim,
                         remaining |-> rl.remaining,
                         pct |-> UsagePct(rl.cur, rl.lim)],
             result |-> [success |-> TRUE, error |-> "", cost |-> rl.cost,
                         hasRL |-> TRUE, cur |-> rl.cur, lim |-> rl.lim,
                         leak |-> rl.leak, data |-> data,
                         attempts |-> q.attempts,
                         responseTime |-> Elapsed(r)]]
    ELSE IF IsRateLimitError(v, r)
      THEN [retry |-> TRUE,
            waitSec |-> IF r.retryAfter # 0 THEN r.retryAfter ELSE 60,
            log |-> [action |-> q.op, success |-> FALSE,
                     cost |-> QUERY_COSTS(q.op),
                     error |-> "Rate limit exceeded", hasRL |-> FALSE],
            sampled |-> FALSE,
            sample |-> [cur |-> 0, lim |-> 0, remaining |-> 0, pct |-> 0],
            result |-> NoResult]
      ELSE LET rl == FailureRateLimit(v, q.op, r)
           IN [retry |-> FALSE, waitSec |-> 0,
               log |-> [action |-> q.op, success |-> FALSE, cost |-> rl.cost,
                        error |-> ErrorMessage(r), hasRL |-> TRUE],
               sampled |-> q.withUrl,
               sample |-> [cur |-> rl.cur, lim |-> rl.lim,
                           remaining |-> rl.remaining,
                           pct |-> UsagePct(rl.cur, rl.lim)],
               result |-> [success |-> FALSE, error |-> ErrorMessage(r),
                           cost |-> rl.cost, hasRL |-> TRUE, cur |-> rl.cur,
                           lim |-> rl.lim, leak |-> rl.leak, data |-> <<>>,
                           attempts |-> q.attempts,
                           responseTime |-> Elapsed(r)]]

(***************************************************************************)
(* The store behind the remote API.                                        *)
(***************************************************************************)
RECURSIVE NodesFrom(_, _)
\* edges of the products query: the products of the store with their tags
NodesFrom(s, p) ==
  IF p > MaxProducts
    THEN <<>>
    ELSE (IF s[p] = "absent" THEN <<>> ELSE <<[id |-> p, tag |-> s[p]]>>)
           \o NodesFrom(s, p + 1)

\* What a successfully executed mutation does to the store.  Products made
\* by generateRandomProduct carry SESSION_BENCHMARK_TAG, the minimal product
\* of the test endpoint carries no tag.
RemoteEffect(s, q, r) ==
  IF r.kind # "ok"
    THEN s
    ELSE CASE q.op \in {"createProduct", "testProductCreate"} ->
                IF \E p \in Products : s[p] = "absent"
                  THEN LET p == CHOOSE x \in Products :
                                  /\ s[x] = "absent"
                                  /\ \A y \in Products : s[y] = "absent" => x <= y
                       IN [s EXCEPT ![p] = IF q.op = "createProduct"
                                            THEN "tagged"
                                            ELSE "plain"]
                  ELSE s
           [] q.op \in {"deleteProduct", "cleanupDelete"} ->
                [s EXCEPT ![q.target] = "absent"]
           [] OTHER -> s

(***************************************************************************)
(* Initial state: the process has started, no request has been served.     *)
(***************************************************************************)
RECURSIVE TaggedFrom(_, _)
\* ids of the products of the store that carry the session tag
TaggedFrom(s, p) ==
  IF p > MaxProducts
    THEN <<>>
    ELSE (IF s[p] = "tagged" THEN <<p>> ELSE <<>>) \o TaggedFrom(s, p + 1)

NoCost == [total |-> 0, average |-> 0, perSecond |-> 0]

NoResponse == [code |-> 0, status |-> "", successCount |-> 0, totalCount |-> 0,
               details |-> "", responseTime |-> 0, cost |-> NoCost]

\* const auditLog = { ..., summary: { ... } }
InitialSummary ==
  [totalOperations |-> 0, successfulOperations |-> 0, failedOperations |-> 0,
   totalCost |-> 0, peakRateLimitUsage |-> 0, recommendedBatchSize |-> 10,
   recommendedDelay |-> 100]

NoGet ==
  [sessionId |-> "", found |-> FALSE, timestamp |-> 0, age |-> 0,
   removedBefore |-> FALSE, status |-> 0, body |-> [error |-> ""]]

\* the page before the benchmark is started; progress is counted in thirds
\* of a percent
NoDriver ==
  [step |-> "form", config |-> [create |-> FALSE, update |-> FALSE, delete |-> FALSE],
   progress |-> 0, status |-> "", sent |-> <<>>, handled |-> <<>>,
   rows |-> [e \in {"create", "update", "delete"} |-> ""], waits |-> <<>>]

InitBase(budget, runBudget, p, leaks, counts, lists) ==
  /\ variant \in {"fetch", "client"}
  /\ store \in StoreChoices
  /\ storedIds \in (IF variant = "fetch"
                      THEN {<<>>, TaggedFrom(store, 1)}
                      ELSE {<<>>})
  /\ pc = p
  /\ endpoint = ""
  /\ count \in counts
  /\ calibratedLeakRate \in leaks
  /\ batchSize = 0
  /\ delayBetweenBatches = 0
  /\ results \in lists
  /\ numProducts = Len(results)
  /\ products = <<>>
  /\ batchStart = Len(results)
  /\ retryCount = 0
  /\ searchWaits = <<>>
  /\ reqs = [i \in Slots |-> NoReq]
  /\ sleeps = <<>>
  /\ batches = <<>>
  /\ response = NoResponse
  /\ operations = <<>>
  /\ rateLimitHistory = <<>>
  /\ summary = InitialSummary
  /\ summaryFresh = FALSE
  /\ issued = {}
  /\ runs = runBudget
  /\ faults = budget
  /\ storedCredentials = [s \in SessionIds |-> NoEntry]
  /\ now = 0
  /\ lastGet = NoGet
  /\ driver = NoDriver
  /\ removed = {}

InitWith(budget, runBudget) == InitBase(budget, runBudget, "idle", {0}, {0}, {<<>>})

Init == InitWith(MaxBatchFaults, MaxRuns)

(***************************************************************************)
(* The remote answers a request; a waiting retry is sent.                  *)
(***************************************************************************)
\* The continuation of handleGraphQLRequest after `await fetch(...)` or
\* `await client.request(...)`, for the call in slot i.
Respond(i, r) ==
  /\ reqs[i].st = "inflight"
  /\ r \in Responses(variant)
  /\ Abnormal(r) => faults > 0
  /\ faults' = IF Abnormal(r) THEN faults - 1 ELSE faults
  /\ LET q == reqs[i]
         data == IF q.op = "getProducts" /\ r.kind = "ok"
                   THEN NodesFrom(store, 1)
                   ELSE <<>>
         o == handleGraphQLRequest(variant, q, r, data)
     IN /\ operations' = Append(operations, o.log)
        /\ rateLimitHistory' = IF o.sampled
                                 THEN Append(rateLimitHistory, o.sample)
                                 ELSE rateLimitHistory
        /\ reqs' = [reqs EXCEPT ![i] =
                      IF o.retry
                        THEN [q EXCEPT !.st = "waiting", !.wait = o.waitSec,
                                       !.answered = AnswerOf(r)]
                        ELSE [q EXCEPT !.st = "done", !.result = o.result,
                                       !.answered = AnswerOf(r)]]
        /\ store' = RemoteEffect(store, q, r)
  /\ summaryFresh' = FALSE
  /\ UNCHANGED <<variant, storedIds, pc, runVars, results, sleeps, batches,
                 response, summary, issued, runs, credVars, driver>>

\* setTimeout(resolve, retryAfter * 1000) has elapsed: the recursive call of
\* handleGraphQLRequest sends the request again.
RetryAfterWait(i) ==
  /\ reqs[i].st = "waiting"
  /\ reqs' = [reqs EXCEPT ![i] = [@ EXCEPT !.st = "inflight",
                                           !.attempts = @ + 1,
                                           !.wait = 0]]
  /\ UNCHANGED <<variant, store, storedIds, pc, runVars, results, sleeps,
                 batches, response, auditVars, issued, runs, faults, credVars, driver>>

(***************************************************************************)
(* The batch loop shared by the create, update and delete endpoints.       *)
(***************************************************************************)
OperationOf(e) ==
  CASE e = "create" -> "createProduct"
    [] e = "update" -> "updateProduct"
    [] OTHER -> "deleteProduct"

\* the batch takes everything that is left of the run
BatchEndAll == numProducts

\* const batchEnd = Math.min(batchStart + batchSize, numProducts)
BatchEnd == Min(batchStart + batchSize, numProducts)
BatchSlots == {i \in Slots : batchStart <= i /\ i < BatchEnd}

\* the sleep ignores the usage the batch reported
AdaptiveDelayIgnoresUsage(lastResult, d) == d

\* the low-usage branch is taken below 65%
AdaptiveDelayLowBelow65(lastResult, d) ==
  IF lastResult.hasRL
    THEN LET usagePercentage == UsagePct(lastResult.cur, lastResult.lim)
         IN IF usagePercentage # NaN /\ usagePercentage > 80
              THEN Min(d * 2, 5000)
              ELSE IF usagePercentage # NaN /\ usagePercentage < 65
                THEN Max(d \div 2, 50)
                ELSE d
    ELSE d

\* The sleep after a batch: delay * 2 capped at 5000 above 80% usage,
\* delay * 0.5 floored at 50 below 40%, else the configured delay.  The
\* delays of the model are even, so delay * 0.5 is d \div 2.
AdaptiveDelay(lastResult, d) ==
  IF lastResult.hasRL
    THEN LET usagePercentage == UsagePct(lastResult.cur, lastResult.lim)
         IN IF usagePercentage # NaN /\ usagePercentage > 80
              THEN Min(d * 2, 5000)
              ELSE IF usagePercentage # NaN /\ usagePercentage < 40
                THEN Max(d \div 2, 50)
                ELSE d
    ELSE d

\* for (let i = batchStart; i < batchEnd; i++) batchPromises.push(...)
DispatchBatch ==
  /\ pc = "loop"
  /\ batchStart < numProducts
  /\ reqs' = [i \in Slots |->
                IF i \in BatchSlots
                  THEN NewReq(OperationOf(endpoint),
                              IF endpoint = "create" THEN 0 ELSE products[i + 1].id,
                              TRUE)
                  ELSE NoReq]
  /\ batches' = Append(batches, BatchEnd - batchStart)
  /\ issued' = IF endpoint = "create"
                 THEN issued
                 ELSE issued \cup
                        {[op |-> OperationOf(endpoint), id |-> products[i + 1].id,
                          tag |-> store[products[i + 1].id]] : i \in BatchSlots}
  /\ pc' = "batch"
  /\ UNCHANGED <<variant, store, storedIds, runVars, results, sleeps,
                 response, auditVars, runs, faults, credVars, driver>>

\* the first promise to resolve ends the wait, as Promise.race would
SomeSettled == \E i \in BatchSlots : reqs[i].st = "done"

\* Promise.all(batchPromises) resolves: every promise of the batch has
\* resolved (none rejects: each carries its own catch)
BatchSettled == \A i \in BatchSlots : reqs[i].st = "done"

\* await Promise.all(batchPromises); results.push(...batchResults); then the
\* adaptive sleep is started.
JoinBatch ==
  /\ pc = "batch"
  /\ BatchSettled
  /\ LET n == BatchEnd - batchStart
         batchResults == [k \in 1..n |-> reqs[batchStart + k - 1].result]
     IN /\ results' = results \o batchResults
        \* lastResult is undefined after a batch without operations
        /\ sleeps' = Append(sleeps,
                            IF n <= 0
                              THEN delayBetweenBatches
                              ELSE AdaptiveDelay(batchResults[n], delayBetweenBatches))
  /\ reqs' = [i \in Slots |-> NoReq]
  /\ pc' = "sleep"
  /\ UNCHANGED <<variant, store, storedIds, runVars, batches, response,
                 auditVars, issued, runs, faults, credVars, driver>>

\* The sleep is over: batchStart += batchSize
NextBatch ==
  /\ pc = "sleep"
  /\ batchStart' = batchStart + batchSize
  /\ pc' = "loop"
  /\ UNCHANGED <<variant, store, storedIds, endpoint, count, calibratedLeakRate, batchSize,
                 delayBetweenBatches, numProducts, products, retryCount,
                 searchWaits, reqs, results, sleeps, batches, response,
                 auditVars, issued, runs, faults, credVars, driver>>

RECURSIVE CountSuccess(_)
\* results.filter((r) => r.success).length
CountSuccess(rs) ==
  IF rs = <<>> THEN 0
  ELSE (IF rs[1].success THEN 1 ELSE 0) + CountSuccess(Tail(rs))

RECURSIVE SuccessfulTime(_)
\* successfulResults.reduce((sum, r) => sum + r.responseTime, 0), in ms
SuccessfulTime(rs) ==
  IF rs = <<>> THEN 0
  ELSE (IF rs[1].success THEN rs[1].responseTime ELSE 0)
         + SuccessfulTime(Tail(rs))

RECURSIVE SuccessfulCost(_)
\* the cost of the successful results only
SuccessfulCost(rs) ==
  IF rs = <<>> THEN 0
  ELSE (IF rs[1].success THEN rs[1].cost ELSE 0) + SuccessfulCost(Tail(rs))

RECURSIVE TotalCost(_)
\* results.reduce((sum, r) => sum + (r.cost || 0), 0)
TotalCost(rs) ==
  IF rs = <<>> THEN 0 ELSE rs[1].cost + TotalCost(Tail(rs))

\* (num / den).toFixed(2), in hundredths: the nearest hundredth; where the
\* quotient lies halfway between two hundredths the digit depends on the
\* binary value of the quotient, and either neighbour may come out.  A
\* division by 0 gives "NaN" (or "Infinity", not told apart here).
ToFixed2(num, den) ==
  IF den = 0
    THEN {NaN}
    ELSE LET q == (100 * num) \div den
             rest == (100 * num) % den
         IN IF 2 * rest < den THEN {q}
            ELSE IF 2 * rest > den THEN {q + 1}
            ELSE {q, q + 1}

\* The loop is over: the metrics are computed and the response is sent.
\* Response times are kept in milliseconds, the reported figures in
\* hundredths (of a second, of a point, of a point per second).
SendSummary ==
  /\ pc = "loop"
  /\ batchStart >= numProducts
  /\ LET successCount == CountSuccess(results)
         totalCount == Len(results)
         totalCost == TotalCost(results)
         time == SuccessfulTime(results)
     IN \E avgResponseTime \in (IF successCount > 0
                                   THEN ToFixed2(time, 1000 * successCount)
                                   ELSE {0}),
           avgCost \in ToFixed2(totalCost, totalCount),
           costPerSecond \in (IF successCount > 0
                                 THEN ToFixed2(1000 * totalCost, time)
                                 ELSE {0}) :
          response' = [code |-> 200,
                       status |-> IF successCount > 0 THEN "success" ELSE "error",
                       successCount |-> successCount,
                       totalCount |-> totalCount,
                       details |-> "summary",
                       responseTime |-> avgResponseTime,
                       cost |-> [total |-> totalCost, average |-> avgCost,
                                 perSecond |-> costPerSecond]]
  /\ pc' = "done"
  /\ UNCHANGED <<variant, store, storedIds, runVars, reqs, results, sleeps,
                 batches, auditVars, issued, runs, faults, credVars, driver>>

(***************************************************************************)
(* POST /api/benchmark/create, client generation.                          *)
(***************************************************************************)
\* the result list of the run before is carried over
StartRunKeepingResults(e, cnt, bs, d, n, ps) ==
  /\ endpoint' = e
  /\ count' = cnt
  /\ calibratedLeakRate' = 0
  /\ batchSize' = bs
  /\ delayBetweenBatches' = d
  /\ numProducts' = n
  /\ products' = ps
  /\ batchStart' = 0
  /\ retryCount' = 0
  /\ searchWaits' = <<>>
  /\ results' = results
  /\ sleeps' = <<>>
  /\ batches' = <<>>
  /\ response' = NoResponse

\* the run takes the recommended settings of the audit summary
StartRunRecommended(e, cnt, bs, d, n, ps) ==
  /\ endpoint' = e
  /\ count' = cnt
  /\ calibratedLeakRate' = 0
  /\ batchSize' = summary.recommendedBatchSize
  /\ delayBetweenBatches' = summary.recommendedDelay
  /\ numProducts' = n
  /\ products' = ps
  /\ batchStart' = 0
  /\ retryCount' = 0
  /\ searchWaits' = <<>>
  /\ results' = <<>>
  /\ sleeps' = <<>>
  /\ batches' = <<>>
  /\ response' = NoResponse

\* const { count, batchSize = 10, delayBetweenBatches = 100 } = req.body and
\* the fresh locals of the handler
StartRun(e, cnt, bs, d, n, ps) ==
  /\ endpoint' = e
  /\ count' = cnt
  /\ calibratedLeakRate' = 0
  /\ batchSize' = bs
  /\ delayBetweenBatches' = d
  /\ numProducts' = n
  /\ products' = ps
  /\ batchStart' = 0
  /\ retryCount' = 0
  /\ searchWaits' = <<>>
  /\ results' = <<>>
  /\ sleeps' = <<>>
  /\ batches' = <<>>
  /\ response' = NoResponse

BenchmarkCreateClient(cnt, cfg) ==
  /\ pc = "idle"
  /\ runs > 0
  /\ variant = "client"
  /\ StartRun("create", cnt, cfg.batchSize, cfg.delay,
              ClampCount(cnt, 10000), <<>>)
  /\ runs' = runs - 1
  /\ pc' = "loop"
  /\ UNCHANGED <<variant, store, storedIds, reqs, auditVars, issued, faults, credVars, driver>>


(***************************************************************************)
(* POST /api/benchmark/update and /delete, client generation: the products *)
(* are searched first and filtered by the session tag.                     *)
(***************************************************************************)
OneReq(q) == [i \in Slots |-> IF i = 0 THEN q ELSE NoReq]
NoReqs == [i \in Slots |-> NoReq]

\* the early return reports a success
ErrorAsSuccess(code, details) ==
  [code |-> code, status |-> "success", successCount |-> 0, totalCount |-> 0,
   details |-> details, responseTime |-> 0, cost |-> NoCost]

\* res.status(code).json({ status: "error", responseTime: 0, details, cost:
\* { total: 0, average: 0, perSecond: 0, productsPerSecond: 0 } })
ErrorResponse(code, details) ==
  [code |-> code, status |-> "error", successCount |-> 0, totalCount |-> 0,
   details |-> details, responseTime |-> 0, cost |-> NoCost]

\* the tag filter lets every product through
AnyProduct(node) == TRUE

\* product.tags && product.tags.includes(SESSION_BENCHMARK_TAG)
IsBenchmarkProduct(node) == node.tag = "tagged"

BenchmarkUpdateClient(cnt, cfg) ==
  /\ pc = "idle"
  /\ runs > 0
  /\ variant = "client"
  /\ StartRun("update", cnt, cfg.batchSize, cfg.delay, 0, <<>>)
  /\ reqs' = OneReq(NewReq("getProducts", 0, TRUE))
  /\ runs' = runs - 1
  /\ pc' = "search"
  /\ UNCHANGED <<variant, store, storedIds, auditVars, issued, faults, credVars, driver>>

BenchmarkDeleteClient(cnt, cfg) ==
  /\ pc = "idle"
  /\ runs > 0
  /\ variant = "client"
  /\ StartRun("delete", cnt, cfg.batchSize, cfg.delay, 0, <<>>)
  /\ reqs' = OneReq(NewReq("getProducts", 0, TRUE))
  /\ runs' = runs - 1
  /\ pc' = "search"
  /\ UNCHANGED <<variant, store, storedIds, auditVars, issued, faults, credVars, driver>>

\* The search has returned: nothing found, no benchmark product found, or
\* the loop over Math.min(Math.max(1, count), products.length) products.
ProductsSearched ==
  /\ pc = "search"
  /\ reqs[0].st = "done"
  /\ LET res == reqs[0].result
         benchmarkProducts == SelectSeq(res.data, IsBenchmarkProduct)
     IN IF ~res.success \/ Len(res.data) = 0
          THEN /\ response' = ErrorResponse(200, "No products found")
               /\ pc' = "done"
               /\ UNCHANGED <<products, numProducts>>
          ELSE IF Len(benchmarkProducts) = 0
            THEN /\ response' = ErrorResponse(200, "No benchmark products found")
                 /\ pc' = "done"
                 /\ UNCHANGED <<products, numProducts>>
            ELSE /\ products' = benchmarkProducts
                 /\ numProducts' = ClampCount(count, Len(benchmarkProducts))
                 /\ pc' = "loop"
                 /\ UNCHANGED response
  /\ reqs' = NoReqs
  /\ UNCHANGED <<variant, store, storedIds, endpoint, count, calibratedLeakRate, batchSize,
                 delayBetweenBatches, batchStart, retryCount, searchWaits,
                 results, sleeps, batches, auditVars, issued, runs, faults, credVars, driver>>

(***************************************************************************)
(* POST /api/cleanup-benchmark (both generations).                         *)
(***************************************************************************)
CleanupBenchmark ==
  /\ pc = "idle"
  /\ runs > 0
  /\ StartRun("cleanup", 0, 0, 0, 0, <<>>)
  /\ reqs' = OneReq(NewReq("getProducts", 0, FALSE))
  /\ runs' = runs - 1
  /\ pc' = "cleanupSearch"
  /\ UNCHANGED <<variant, store, storedIds, auditVars, issued, faults, credVars, driver>>

\* status "success" with deletedCount 0 when nothing is found, else the
\* benchmark products are deleted one after the other
CleanupSearched ==
  /\ pc = "cleanupSearch"
  /\ reqs[0].st = "done"
  /\ LET res == reqs[0].result
         benchmarkProducts == SelectSeq(res.data, IsBenchmarkProduct)
     IN IF ~res.success \/ Len(benchmarkProducts) = 0
          THEN /\ response' = [code |-> 200, status |-> "success",
                               successCount |-> 0, totalCount |-> 0,
                               details |-> "nothing to clean up"]
               /\ pc' = "done"
               /\ UNCHANGED <<products, numProducts>>
          ELSE /\ products' = benchmarkProducts
               /\ numProducts' = Len(benchmarkProducts)
               /\ pc' = "cleanupLoop"
               /\ UNCHANGED response
  /\ reqs' = NoReqs
  /\ UNCHANGED <<variant, store, storedIds, endpoint, count, calibratedLeakRate, batchSize,
                 delayBetweenBatches, batchStart, retryCount, searchWaits,
                 results, sleeps, batches, auditVars, issued, runs, faults, credVars, driver>>

\* for (let i = 0; i < benchmarkProducts.length; i++) await handleGraphQLRequest(...)
CleanupDelete ==
  /\ pc = "cleanupLoop"
  /\ batchStart < numProducts
  /\ reqs' = OneReq(NewReq("cleanupDelete", products[batchStart + 1].id,
                           variant = "fetch"))
  /\ issued' = issued \cup {[op |-> "cleanupDelete",
                             id |-> products[batchStart + 1].id,
                             tag |-> store[products[batchStart + 1].id]]}
  /\ pc' = "cleanupWait"
  /\ UNCHANGED <<variant, store, storedIds, runVars, results, sleeps, batches,
                 response, auditVars, runs, faults, credVars, driver>>

\* results.push(result); the 100 ms pause; i++
CleanupDeleted ==
  /\ pc = "cleanupWait"
  /\ reqs[0].st = "done"
  /\ results' = Append(results, reqs[0].result)
  /\ batchStart' = batchStart + 1
  /\ reqs' = NoReqs
  /\ pc' = "cleanupLoop"
  /\ UNCHANGED <<variant, store, storedIds, endpoint, count, calibratedLeakRate, batchSize,
                 delayBetweenBatches, numProducts, products, retryCount,
                 searchWaits, sleeps, batches, response, auditVars, issued,
                 runs, faults, credVars, driver>>

CleanupCompleted ==
  /\ pc = "cleanupLoop"
  /\ batchStart >= numProducts
  /\ response' = [code |-> 200, status |-> "success",
                  successCount |-> CountSuccess(results),
                  totalCount |-> Len(products), details |-> "cleanup completed"]
  /\ pc' = "done"
  /\ UNCHANGED <<variant, store, storedIds, runVars, reqs, results, sleeps,
                 batches, auditVars, issued, runs, faults, credVars, driver>>

(***************************************************************************)
(* POST /api/test-product-create (both generations): one request.          *)
(***************************************************************************)
TestProductCreate ==
  /\ pc = "idle"
  /\ runs > 0
  /\ StartRun("test", 0, 0, 0, 1, <<>>)
  /\ reqs' = OneReq(NewReq("testProductCreate", 0, variant = "fetch"))
  /\ runs' = runs - 1
  /\ pc' = "single"
  /\ UNCHANGED <<variant, store, storedIds, auditVars, issued, faults, credVars, driver>>

TestProductCreated ==
  /\ pc = "single"
  /\ reqs[0].st = "done"
  /\ results' = <<reqs[0].result>>
  /\ response' = [code |-> 200,
                  status |-> IF reqs[0].result.success THEN "success" ELSE "error",
                  successCount |-> IF reqs[0].result.success THEN 1 ELSE 0,
                  totalCount |-> 1, details |-> "test"]
  /\ reqs' = NoReqs
  /\ pc' = "done"
  /\ UNCHANGED <<variant, store, storedIds, runVars, sleeps, batches,
                 auditVars, issued, runs, faults, credVars, driver>>

(***************************************************************************)
(* The benchmark endpoints of the fetch generation.  Each handler passes   *)
(* `client` to the calibration call before the `const client` declaration  *)
(* of the same block has run: evaluating the argument throws a             *)
(* ReferenceError, which the handler's catch turns into a 500 response.    *)
(***************************************************************************)
ClientBeforeInitialization(e, cnt) ==
  /\ pc = "idle"
  /\ runs > 0
  /\ variant = "fetch"
  /\ endpoint' = e
  /\ count' = cnt
  /\ response' = ErrorResponse(500, "Cannot access 'client' before initialization")
  /\ runs' = runs - 1
  /\ pc' = "done"
  /\ UNCHANGED <<variant, store, storedIds, calibratedLeakRate, batchSize, delayBetweenBatches,
                 numProducts, products, batchStart, retryCount, searchWaits,
                 reqs, results, sleeps, batches, auditVars, issued, faults, credVars, driver>>

BenchmarkCreateFetch(cnt) == ClientBeforeInitialization("create", cnt)
BenchmarkUpdateFetch(cnt) == ClientBeforeInitialization("update", cnt)
BenchmarkDeleteFetch(cnt) == ClientBeforeInitialization("delete", cnt)

(***************************************************************************)
(* POST /api/benchmark/delete of src/delete_endpoint_fixed.js: the client  *)
(* is created first, the run is calibrated, and the products come from the *)
(* stored ids or, failing that, from a search that is retried.             *)
(***************************************************************************)
\* The computation of calculateOptimalBatchConfig with half the delay the
\* bucket needs to restore the cost of a batch.
calculateOptimalBatchConfigHalfDelay(leakRate, costPerProduct) ==
  LET productsPerSecond == leakRate \div costPerProduct
      optimalBatchSize2 == Min(Max(productsPerSecond * 3, 10), 200)
      num == costPerProduct * optimalBatchSize2 * 500
      minDelayBetweenBatches == (num + leakRate - 1) \div leakRate
  IN [batchSize |-> optimalBatchSize2 \div 2,
      delayBetweenBatches |-> Min(minDelayBetweenBatches \div 2, 5000)]

\* The computation of calculateOptimalBatchConfig without the 20% safety
\* margin on the delay.
calculateOptimalBatchConfigNoMargin(leakRate, costPerProduct) ==
  LET productsPerSecond == leakRate \div costPerProduct
      optimalBatchSize2 == Min(Max(productsPerSecond * 3, 10), 200)
      num == costPerProduct * optimalBatchSize2 * 500
      minDelayBetweenBatches == (num + leakRate - 1) \div leakRate
  IN [batchSize |-> optimalBatchSize2 \div 2,
      delayBetweenBatches |-> Min(minDelayBetweenBatches, 5000)]

\* calculateOptimalBatchConfig(leakRate, costPerProduct): twice the optimal
\* batch size is kept as an integer (productsPerSecond * 1.5 may end in .5)
calculateOptimalBatchConfig(leakRate, costPerProduct) ==
  LET productsPerSecond == leakRate \div costPerProduct
      optimalBatchSize2 == Min(Max(productsPerSecond * 3, 10), 200)
      num == costPerProduct * optimalBatchSize2 * 500
      minDelayBetweenBatches == (num + leakRate - 1) \div leakRate
      safeDelayBetweenBatches == (minDelayBetweenBatches * 12 + 9) \div 10
  IN [batchSize |-> optimalBatchSize2 \div 2,
      delayBetweenBatches |-> Min(safeDelayBetweenBatches, 5000)]

\* getStoredProductIds(count): at most count of the remembered ids
getStoredProductIds(cnt) ==
  SubSeq(storedIds, 1, Min(Max(cnt, 0), Len(storedIds)))

BenchmarkDeleteFixed(cnt) ==
  /\ pc = "idle"
  /\ runs > 0
  /\ variant = "fetch"
  /\ StartRun("deleteFixed", cnt, 0, 0, 0, <<>>)
  /\ reqs' = OneReq(NewReq("rateLimitCheck", 0, TRUE))
  /\ runs' = runs - 1
  /\ pc' = "calibrate"
  /\ UNCHANGED <<variant, store, storedIds, auditVars, issued, faults, credVars, driver>>

\* The calibration query has returned: the configuration is computed; with
\* stored ids the loop starts, without them the product search is sent.
Calibrated ==
  /\ pc = "calibrate"
  /\ reqs[0].st = "done"
  /\ LET res == reqs[0].result
         leakRate == IF res.leak # 0 THEN res.leak ELSE 100
         cfg == calculateOptimalBatchConfig(leakRate, 10)
         storedProductIds == getStoredProductIds(count)
     IN /\ calibratedLeakRate' = leakRate
        /\ batchSize' = cfg.batchSize
        /\ delayBetweenBatches' = cfg.delayBetweenBatches
        /\ IF Len(storedProductIds) > 0
             THEN /\ products' = [k \in 1..Len(storedProductIds) |->
                                    [id |-> storedProductIds[k], tag |-> "stored"]]
                  /\ numProducts' = ClampCount(count,
                                               Min(Len(storedProductIds), 1000000))
                  /\ reqs' = NoReqs
                  /\ pc' = "loop"
             ELSE /\ reqs' = OneReq(NewReq("getProducts", 0, TRUE))
                  /\ pc' = "fixedSearch"
                  /\ UNCHANGED <<products, numProducts>>
  /\ UNCHANGED <<variant, store, storedIds, endpoint, count, batchStart,
                 retryCount, searchWaits, results, sleeps, batches, response,
                 auditVars, issued, runs, faults, credVars, driver>>

\* the search waits after its third attempt as well and tries a fourth time
ProductSearchWaitsAfterLast ==
  /\ pc = "fixedSearch"
  /\ reqs[0].st = "done"
  /\ LET res == reqs[0].result
         maxRetries == 3
     IN IF (res.success /\ Len(res.data) > 0) \/ retryCount >= maxRetries
          THEN /\ response' = ErrorResponse(500, "productsResponse is not defined")
               /\ retryCount' = IF res.success /\ Len(res.data) > 0
                                  THEN retryCount
                                  ELSE retryCount + 1
               /\ reqs' = NoReqs
               /\ pc' = "done"
               /\ UNCHANGED searchWaits
          ELSE /\ searchWaits' = Append(searchWaits, (2 ^ retryCount) * 1000)
               /\ retryCount' = retryCount + 1
               /\ reqs' = OneReq(NewReq("getProducts", 0, TRUE))
               /\ UNCHANGED <<pc, response>>
  /\ UNCHANGED <<variant, store, storedIds, endpoint, count, calibratedLeakRate, batchSize,
                 delayBetweenBatches, numProducts, products, batchStart,
                 results, sleeps, batches, auditVars, issued, runs, faults, credVars, driver>>

\* while (retryCount < maxRetries): an attempt of the search has returned.
\* After the loop the handler reads productsResponse, which is declared
\* with let inside the block of the loop and is not in scope: the
\* ReferenceError ends the request with a 500 response.
ProductSearchAttempted ==
  /\ pc = "fixedSearch"
  /\ reqs[0].st = "done"
  /\ LET res == reqs[0].result
         maxRetries == 3
     IN IF (res.success /\ Len(res.data) > 0) \/ retryCount >= maxRetries - 1
          THEN /\ response' = ErrorResponse(500, "productsResponse is not defined")
               /\ retryCount' = IF res.success /\ Len(res.data) > 0
                                  THEN retryCount
                                  ELSE retryCount + 1
               /\ reqs' = NoReqs
               /\ pc' = "done"
               /\ UNCHANGED searchWaits
          ELSE /\ searchWaits' = Append(searchWaits, (2 ^ retryCount) * 1000)
               /\ retryCount' = retryCount + 1
               /\ reqs' = OneReq(NewReq("getProducts", 0, TRUE))
               /\ UNCHANGED <<pc, response>>
  /\ UNCHANGED <<variant, store, storedIds, endpoint, count, calibratedLeakRate, batchSize,
                 delayBetweenBatches, numProducts, products, batchStart,
                 results, sleeps, batches, auditVars, issued, runs, faults, credVars, driver>>

(***************************************************************************)
(* The audit summary: updateAuditSummary, reached through                  *)
(* GET /api/audit-log/summary, /json and /txt.                             *)
(***************************************************************************)
RECURSIVE SumCost(_)
\* operations.reduce((sum, op) => sum + (op.cost || 0), 0)
SumCost(ops) == IF ops = <<>> THEN 0 ELSE ops[1].cost + SumCost(Tail(ops))

RECURSIVE SumPct(_)
SumPct(h) == IF h = <<>> THEN 0 ELSE h[1].pct + SumPct(Tail(h))

\* a sum or a maximum over samples with a NaN among them is NaN
AnyNaN(h) == \E k \in 1..Len(h) : h[k].pct = NaN

RECURSIVE MaxPct(_)
\* Math.max(...rateLimitHistory.map((rl) => rl.usagePercentage))
MaxPct(h) ==
  IF AnyNaN(h) THEN NaN
  ELSE IF Len(h) = 1 THEN h[1].pct ELSE Max(h[1].pct, MaxPct(Tail(h)))

\* rateLimitHistory.slice(-10)
LastTen(h) == IF Len(h) <= 10 THEN h ELSE SubSeq(h, Len(h) - 9, Len(h))

\* the factor of the shrinking step is above 1
FloorTimes17(x) == (x * 17) \div 10

\* Math.floor(x * 0.7) in IEEE doubles: 90 * 0.7 is 62.99999999999999
FloorTimes07(x) == IF x = 90 THEN 62 ELSE (x * 7) \div 10
\* Math.floor(x * 1.3), Math.floor(x * 1.5), Math.floor(x * 0.8): exact for
\* the integers up to 5000
FloorTimes13(x) == (x * 13) \div 10
FloorTimes15(x) == (x * 15) \div 10
FloorTimes08(x) == (x * 8) \div 10

\* the shrunk batch size is not floored at 1
ShrinkBatchUnclamped(b) == FloorTimes07(b)

\* Math.max(1, Math.floor(recommendedBatchSize * 0.7))
ShrinkBatch(b) == Max(1, FloorTimes07(b))

\* The recommended settings: above 80% average usage of the last ten
\* samples the batch size shrinks and the delay grows, below 40% the other
\* way round.  avgUsage > 80 is sum > 80 * n on whole percentages.
Recommended(sm, h) ==
  IF Len(h) = 0
    THEN sm
    ELSE LET recentHistory == LastTen(h)
             total == SumPct(recentHistory)
             n == Len(recentHistory)
         IN IF AnyNaN(recentHistory)
              THEN sm
              ELSE IF total > 80 * n
                THEN [sm EXCEPT
                        !.recommendedBatchSize = ShrinkBatch(@),
                        !.recommendedDelay = Min(5000, FloorTimes15(@))]
                ELSE IF total < 40 * n
                  THEN [sm EXCEPT
                          !.recommendedBatchSize = Min(100, FloorTimes13(@)),
                          !.recommendedDelay = Max(50, FloorTimes08(@))]
                  ELSE sm

\* every operation of the log is counted as failed
updateAuditSummaryAllFailed(sm, ops, h) ==
  Recommended([sm EXCEPT
                 !.totalOperations = Len(ops),
                 !.successfulOperations = Len(SelectSeq(ops, LAMBDA op : op.success)),
                 !.failedOperations = Len(ops),
                 !.totalCost = SumCost(ops),
                 !.peakRateLimitUsage = IF Len(h) > 0 THEN MaxPct(h) ELSE 0],
              h)

updateAuditSummary(sm, ops, h) ==
  Recommended([sm EXCEPT
                 !.totalOperations = Len(ops),
                 !.successfulOperations = Len(SelectSeq(ops, LAMBDA op : op.success)),
                 !.failedOperations = Len(SelectSeq(ops, LAMBDA op : ~op.success)),
                 !.totalCost = SumCost(ops),
                 !.peakRateLimitUsage = IF Len(h) > 0 THEN MaxPct(h) ELSE 0],
              h)

\* app.get("/api/audit-log/summary"): updateAuditSummary(); res.json(...)
GetAuditSummary ==
  /\ summary' = updateAuditSummary(summary, operations, rateLimitHistory)
  /\ summaryFresh' = TRUE
  /\ UNCHANGED <<variant, store, storedIds, pc, runVars, reqs, results, sleeps,
                 batches, response, operations, rateLimitHistory, issued, runs,
                 faults, credVars, driver>>

\* The browser page is left: a finished request is forgotten.
Idle ==
  /\ pc = "done"
  /\ runs > 0
  /\ pc' = "idle"
  /\ UNCHANGED <<variant, store, storedIds, runVars, reqs, results, sleeps,
                 batches, response, auditVars, issued, runs, faults, credVars, driver>>

Next ==
  \/ \E cnt \in CountChoices, cfg \in ConfigChoices :
       \/ BenchmarkCreateClient(cnt, cfg)
       \/ BenchmarkUpdateClient(cnt, cfg)
       \/ BenchmarkDeleteClient(cnt, cfg)
  \/ \E cnt \in CountChoices :
       \/ BenchmarkCreateFetch(cnt)
       \/ BenchmarkUpdateFetch(cnt)
       \/ BenchmarkDeleteFetch(cnt)
       \/ BenchmarkDeleteFixed(cnt)
  \/ CleanupBenchmark
  \/ TestProductCreate
  \/ ProductsSearched
  \/ CleanupSearched
  \/ CleanupDelete
  \/ CleanupDeleted
  \/ CleanupCompleted
  \/ TestProductCreated
  \/ Calibrated
  \/ ProductSearchAttempted
  \/ DispatchBatch
  \/ \E i \in Slots : \E r \in Responses(variant) : Respond(i, r)
  \/ \E i \in Slots : RetryAfterWait(i)
  \/ JoinBatch
  \/ NextBatch
  \/ SendSummary

Spec == Init /\ [][Next]_vars

(***************************************************************************)
(* One request through handleGraphQLRequest, throttled repeatedly.         *)
(***************************************************************************)
InitReq == InitWith(MaxFaults, MaxRuns)

NextReq ==
  \/ TestProductCreate
  \/ \E i \in Slots : \E r \in Responses(variant) : Respond(i, r)
  \/ \E i \in Slots : RetryAfterWait(i)
  \/ TestProductCreated

SpecReq == InitReq /\ [][NextReq]_vars

(***************************************************************************)
(* Requests that are logged, with summaries requested at any time.         *)
(***************************************************************************)
InitAudit == InitWith(MaxBatchFaults, MaxAuditRuns)

NextAudit ==
  \/ TestProductCreate
  \/ \E i \in Slots : \E r \in Responses(variant) : Respond(i, r)
  \/ TestProductCreated
  \/ Idle
  \/ GetAuditSummary

SpecAudit == InitAudit /\ [][NextAudit]_vars

(***************************************************************************)
(* The initial configuration, for every leak rate a calibration may report.*)
(***************************************************************************)
LeakRates == 1..MaxLeakRate

\* const { batchSize, delayBetweenBatches } =
\*   calculateOptimalBatchConfig(leakRate, 10);
Configure ==
  /\ pc = "calibrated"
  /\ LET cfg == calculateOptimalBatchConfig(calibratedLeakRate, 10)
     IN /\ batchSize' = cfg.batchSize
        /\ delayBetweenBatches' = cfg.delayBetweenBatches
  /\ pc' = "configured"
  /\ UNCHANGED <<variant, store, storedIds, endpoint, count, calibratedLeakRate,
                 numProducts, products, batchStart, retryCount, searchWaits,
                 reqs, results, sleeps, batches, response, auditVars, issued,
                 runs, faults, credVars, driver>>

InitConfig == InitBase(0, 0, "calibrated", LeakRates, {0}, {<<>>})

SpecConfig == InitConfig /\ [][Configure]_vars

(***************************************************************************)
(* Requests whose body carries any count, up to the start of the loop.     *)
(***************************************************************************)
RequestedCounts ==
  {-1, 0, 1, 9999, 10000, 10001, 999999, 1000000, MaxRequested}

InitCount == InitBase(0, MaxRuns, "idle", {0}, RequestedCounts, {<<>>})

NextCount ==
  \/ \E cfg \in ConfigChoices :
       \/ BenchmarkCreateClient(count, cfg)
       \/ BenchmarkUpdateClient(count, cfg)
       \/ BenchmarkDeleteClient(count, cfg)
  \/ BenchmarkDeleteFixed(count)
  \/ \E i \in Slots : \E r \in Responses(variant) : Respond(i, r)
  \/ ProductsSearched
  \/ Calibrated
  \/ ProductSearchAttempted

SpecCount == InitCount /\ [][NextCount]_vars

(***************************************************************************)
(* The metrics of a run, for every list of results its loop may leave.     *)
(***************************************************************************)
\* a result of handleGraphQLRequest as the metrics read it: success, cost
\* and responseTime (milliseconds)
ResultChoices ==
  {[NoResult EXCEPT !.success = s, !.cost = c, !.responseTime = t,
                    !.hasRL = TRUE] :
     s \in BOOLEAN, c \in {0, 10, 11}, t \in {100, 250}}

ResultLists ==
  UNION {[1..n -> ResultChoices] : n \in 1..MaxResults}

InitMetrics == InitBase(0, 0, "loop", {0}, {0}, ResultLists)

SpecMetrics == InitMetrics /\ [][SendSummary]_vars

(***************************************************************************)
(* Several benchmark runs in one process, the summary being requested      *)
(* between them.                                                           *)
(***************************************************************************)
InitRuns == InitWith(0, MaxAuditRuns)

NextRuns ==
  \/ \E cnt \in CountChoices, cfg \in ConfigChoices :
       \/ BenchmarkCreateClient(cnt, cfg)
       \/ BenchmarkUpdateClient(cnt, cfg)
       \/ BenchmarkDeleteClient(cnt, cfg)
  \/ ProductsSearched
  \/ DispatchBatch
  \/ \E i \in Slots : \E r \in Responses(variant) : Respond(i, r)
  \/ JoinBatch
  \/ NextBatch
  \/ SendSummary
  \/ Idle
  \/ (pc = "done" /\ GetAuditSummary)

SpecRuns == InitRuns /\ [][NextRuns]_vars

(***************************************************************************)
(* POST /api/store-credentials and GET /api/stored-credentials/:sessionId  *)
(* (fetch generation), with the clock of the server in hours.              *)
(***************************************************************************)
\* 24 * 60 * 60 * 1000 milliseconds
Day == 24

\* the hours between two requests: half a day, or an hour more
ClockSteps == {Day \div 2, Day \div 2 + 1}

\* no entry ever counts as expired
NeverExpired(timestamp, t) == FALSE

\* value.timestamp < oneDayAgo, with oneDayAgo = Date.now() - 24 h
Expired(timestamp, t) == timestamp < t - Day

\* the answer carries the access token as well
credentialsBodyWithToken(sessionId, credentials) ==
  [status |-> "success", storeUrl |-> credentials.storeUrl,
   accessToken |-> credentials.accessToken,
   sessionId |-> sessionId, expiresAt |-> credentials.timestamp + Day]

\* res.json({ status: "success", storeUrl, sessionId, expiresAt })
credentialsBody(sessionId, credentials) ==
  [status |-> "success", storeUrl |-> credentials.storeUrl,
   sessionId |-> sessionId, expiresAt |-> credentials.timestamp + Day]

\* what GET /api/stored-credentials/:sessionId answers at time t when the
\* map holds the given entry for the session
StoredCredentialsAnswer(sessionId, credentials, t) ==
  IF ~credentials.stored
    THEN [code |-> 404, body |-> [error |-> "Credentials not found or expired"]]
    ELSE IF Expired(credentials.timestamp, t)
      THEN [code |-> 404, body |-> [error |-> "Credentials expired"]]
      ELSE [code |-> 200, body |-> credentialsBody(sessionId, credentials)]

\* time passes between two requests
Tick(d) ==
  /\ now + d <= MaxClock
  /\ now' = now + d
  /\ UNCHANGED <<variant, store, storedIds, pc, runVars, reqs, results, sleeps,
                 batches, response, auditVars, issued, runs, faults,
                 storedCredentials, lastGet, removed, driver>>

\* app.post("/api/store-credentials"): without a store URL or an access
\* token 400; otherwise the entry is set under the session id, with
\* Date.now() as its timestamp, and every entry older than 24 hours is
\* deleted.
StoreCredentials(sessionKey, complete) ==
  /\ variant = "fetch"
  /\ pc = "idle"
  /\ IF ~complete
       THEN /\ response' = ErrorResponse(400, "Missing store URL or access token")
            /\ UNCHANGED <<storedCredentials, removed>>
       ELSE \E accessToken \in AccessTokens :
            LET set == [storedCredentials EXCEPT
                          ![sessionKey] = [stored |-> TRUE, timestamp |-> now,
                                           storeUrl |-> "shop",
                                           accessToken |-> accessToken]]
                old == {k \in SessionIds :
                          set[k].stored /\ Expired(set[k].timestamp, now)}
            IN /\ storedCredentials' =
                    [k \in SessionIds |-> IF k \in old THEN NoEntry ELSE set[k]]
               /\ removed' = removed \cup {<<k, set[k].timestamp>> : k \in old}
               /\ response' = [NoResponse EXCEPT
                                 !.code = 200, !.status = "success",
                                 !.details = "Credentials stored successfully"]
  /\ UNCHANGED <<variant, store, storedIds, pc, runVars, reqs, results, sleeps,
                 batches, auditVars, issued, runs, faults, now, lastGet, driver>>

\* app.get("/api/stored-credentials/:sessionId"): 404 without an entry; an
\* expired entry is deleted and answered with 404; otherwise 200.
GetStoredCredentials(sessionId) ==
  /\ variant = "fetch"
  /\ pc = "idle"
  /\ LET credentials == storedCredentials[sessionId]
         seen == [sessionId |-> sessionId, found |-> credentials.stored,
                  timestamp |-> credentials.timestamp,
                  age |-> IF credentials.stored
                            THEN now - credentials.timestamp ELSE 0,
                  removedBefore |->
                    <<sessionId, credentials.timestamp>> \in removed,
                  status |-> 0,
                  body |-> StoredCredentialsAnswer(sessionId, credentials, now).body]
     IN IF ~credentials.stored
          THEN /\ lastGet' = [seen EXCEPT !.status = 404]
               /\ response' = ErrorResponse(404, "Credentials not found or expired")
               /\ UNCHANGED <<storedCredentials, removed>>
          ELSE IF Expired(credentials.timestamp, now)
            THEN /\ storedCredentials' =
                      [storedCredentials EXCEPT ![sessionId] = NoEntry]
                 /\ removed' = removed \cup {<<sessionId, credentials.timestamp>>}
                 /\ lastGet' = [seen EXCEPT !.status = 404]
                 /\ response' = ErrorResponse(404, "Credentials expired")
            ELSE /\ lastGet' = [seen EXCEPT !.status = 200]
                 /\ response' = [NoResponse EXCEPT
                                   !.code = 200, !.status = "success",
                                   !.details = "credentials"]
                 /\ UNCHANGED <<storedCredentials, removed>>
  /\ UNCHANGED <<variant, store, storedIds, pc, runVars, reqs, results, sleeps,
                 batches, auditVars, issued, runs, faults, now, driver>>

InitCred == InitWith(0, 0)

NextCred ==
  \/ \E d \in ClockSteps : Tick(d)
  \/ \E s \in SessionIds, complete \in BOOLEAN : StoreCredentials(s, complete)
  \/ \E s \in SessionIds : GetStoredCredentials(s)

SpecCred == InitCred /\ [][NextCred]_vars

(***************************************************************************)
(* The recommended settings under a usage that is high at first and low    *)
(* from then on: logged requests of the fetch generation, with summaries   *)
(* requested at any time and again and again.                              *)
(***************************************************************************)
\* the throttle status reports 20% or 95% usage
TrendResponses ==
  {r \in Responses("fetch") : r.kind = "ok" /\ r.throttle \in {1, 2}}

HighUsage(r) ==
  LET t == ThrottleChoices[r.throttle]
  IN (t.max - t.avail) * 100 > 80 * t.max

\* the remote answers; a high usage is reported by the first answer only
RespondTrend(i, r) ==
  /\ HighUsage(r) => rateLimitHistory = <<>>
  /\ Respond(i, r)

InitTrend ==
  /\ InitWith(0, MaxTrendRuns)
  /\ variant = "fetch"
  /\ store = [p \in Products |-> "absent"]
  /\ storedIds = <<>>

NextTrend ==
  \/ TestProductCreate
  \/ \E i \in Slots : \E r \in TrendResponses : RespondTrend(i, r)
  \/ TestProductCreated
  \/ Idle
  \/ GetAuditSummary

\* the summary is requested again as long as a request changes it
SpecTrend == InitTrend /\ [][NextTrend]_vars /\ WF_vars(GetAuditSummary)

(***************************************************************************)
(* A delete run of the fetch generation over the remembered ids, with      *)
(* summaries requested at any time.                                        *)
(***************************************************************************)
InitSteady == InitWith(0, MaxRuns) /\ variant = "fetch"

NextSteady ==
  \/ \E cnt \in CountChoices : BenchmarkDeleteFixed(cnt)
  \/ Calibrated
  \/ ProductSearchAttempted
  \/ DispatchBatch
  \/ \E i \in Slots : \E r \in Responses(variant) : Respond(i, r)
  \/ JoinBatch
  \/ NextBatch
  \/ SendSummary
  \/ GetAuditSummary

SpecSteady == InitSteady /\ [][NextSteady]_vars

(***************************************************************************)
(* POST /api/rate-limit-analysis, for every leak rate the test query may   *)
(* report (0: none reported).                                              *)
(***************************************************************************)
\* the plan is "Shopify for Enterprise" above 2000 only
planTypeAbove(leakRate) ==
  IF leakRate > 2000 THEN "Shopify for Enterprise"
  ELSE IF leakRate >= 1000 THEN "Shopify Plus"
  ELSE IF leakRate >= 200 THEN "Advanced Shopify"
  ELSE "Standard Shopify"

\* let planType = "Standard Shopify"; if (leakRate >= 2000) ... else if ...
planType(leakRate) ==
  IF leakRate >= 2000 THEN "Shopify for Enterprise"
  ELSE IF leakRate >= 1000 THEN "Shopify Plus"
  ELSE IF leakRate >= 200 THEN "Advanced Shopify"
  ELSE "Standard Shopify"

\* the result of the test query as the handler reads it
AnalysisResults ==
  {[NoResult EXCEPT !.success = TRUE, !.hasRL = TRUE, !.lim = 1000,
                    !.leak = l] : l \in 0..MaxLeakRate}
    \cup {[NoResult EXCEPT !.error = "HTTP 500", !.hasRL = TRUE, !.lim = 1000]}

\* The handler after `await handleGraphQLRequest(...)`.
RateLimitAnalysis ==
  /\ pc = "analysis"
  /\ LET result == results[1]
         rateLimit == result
         leakRate == IF rateLimit.leak # 0 THEN rateLimit.leak ELSE 100
     IN IF ~result.success
          THEN /\ response' = [NoResponse EXCEPT !.code = 200, !.status = "error",
                                                 !.details = result.error]
               /\ UNCHANGED calibratedLeakRate
          ELSE /\ response' = [NoResponse EXCEPT !.code = 200, !.status = "success",
                                                 !.details = planType(leakRate)]
               /\ calibratedLeakRate' = leakRate
  /\ pc' = "done"
  /\ UNCHANGED <<variant, store, storedIds, endpoint, count, batchSize,
                 delayBetweenBatches, numProducts, products, batchStart,
                 retryCount, searchWaits, reqs, results, sleeps, batches,
                 auditVars, issued, runs, faults, credVars, driver>>

InitPlan ==
  InitBase(0, 0, "analysis", {0}, {0}, {<<r>> : r \in AnalysisResults})

SpecPlan == InitPlan /\ [][RateLimitAnalysis]_vars

(***************************************************************************)
(* A create run of the client generation whose request body carries any    *)
(* batch size, followed for its first batches.                             *)
(***************************************************************************)
LoopConfigChoices == { [batchSize |-> 2, delay |-> 100],
                       [batchSize |-> 0, delay |-> 100],
                       [batchSize |-> -1, delay |-> 100] }

NextLoop ==
  \/ \E cnt \in CountChoices, cfg \in LoopConfigChoices :
       BenchmarkCreateClient(cnt, cfg)
  \/ Len(batches) < MaxBatches /\ DispatchBatch
  \/ \E i \in Slots : \E r \in Responses(variant) : Respond(i, r)
  \/ JoinBatch
  \/ NextBatch
  \/ SendSummary

InitLoop == InitWith(0, MaxRuns) /\ variant = "client"

SpecLoop == InitLoop /\ [][NextLoop]_vars

(***************************************************************************)
(* The browser page: startBenchmark runs the enabled benchmarks against    *)
(* the server, one request after the other.                                *)
(***************************************************************************)
DriverOperations == <<"create", "update", "delete">>

\* createCount > 0, updateCount > 0, deleteCount > 0 of the form, which
\* asks for at least one operation
DriverConfigs ==
  {cfg \in [create : BOOLEAN, update : BOOLEAN, delete : BOOLEAN] :
     cfg.create \/ cfg.update \/ cfg.delete}

\* const batchSize = 10; const delayBetweenBatches = 100
DriverBody == [batchSize |-> 10, delay |-> 100]

\* the count of the form for an enabled benchmark
DriverCount == 1

\* delayBetweenOperations: 3 (seconds)
DelayBetweenOperations == 3

Sent(e) ==
  CASE e = "create" -> "createSent"
    [] e = "update" -> "updateSent"
    [] OTHER -> "deleteSent"

After(e) ==
  CASE e = "create" -> "update"
    [] e = "update" -> "delete"
    [] OTHER -> "end"

\* [createCount > 0, updateCount > 0, deleteCount > 0].filter(Boolean).length
TotalOperations(cfg) ==
  Cardinality({e \in {"create", "update", "delete"} : cfg[e]})

\* progressPerOperation, in thirds of a percent
ProgressPerOperation(cfg) ==
  IF TotalOperations(cfg) > 0 THEN 300 \div TotalOperations(cfg) ELSE 300

\* the wait after a benchmark: after create when update or delete is
\* enabled, after update when delete is enabled
WaitAfter(e, cfg) ==
  CASE e = "create" -> cfg.update \/ cfg.delete
    [] e = "update" -> cfg.delete
    [] OTHER -> FALSE

\* startBenchmark up to its first `if (config.createCount > 0)`
StartBenchmark(cfg) ==
  /\ driver.step = "form"
  /\ driver' = [driver EXCEPT !.step = "create", !.config = cfg, !.progress = 0,
                              !.status = "Starting GraphQL benchmark..."]
  /\ UNCHANGED <<variant, store, storedIds, pc, runVars, reqs, results, sleeps,
                 batches, response, auditVars, issued, runs, faults, credVars>>

\* the benchmark is not enabled: the `if` is passed over
DriverSkip(e) ==
  /\ driver.step = e
  /\ ~driver.config[e]
  /\ driver' = [driver EXCEPT !.step = After(e)]
  /\ UNCHANGED <<variant, store, storedIds, pc, runVars, reqs, results, sleeps,
                 batches, response, auditVars, issued, runs, faults, credVars>>

\* benchmarkProductCreation / Updates / Deletion up to `await fetch(...)`
DriverSend(e) ==
  /\ driver.step = e
  /\ driver.config[e]
  /\ driver' = [driver EXCEPT !.step = Sent(e), !.status = "Testing " \o e,
                              !.sent = Append(@, e)]
  /\ UNCHANGED <<variant, store, storedIds, pc, runVars, reqs, results, sleeps,
                 batches, response, auditVars, issued, runs, faults, credVars>>

\* what startBenchmark does after `await this.benchmark...(...)` returned
\* with the given status in the row: progress, and the wait before the
\* next benchmark
Continue(e, status) ==
  [driver EXCEPT !.step = After(e),
                 !.rows[e] = status,
                 !.handled = Append(@, e),
                 !.progress = @ + ProgressPerOperation(driver.config),
                 !.waits = IF WaitAfter(e, driver.config)
                             THEN Append(@, DelayBetweenOperations)
                             ELSE @]

\* an error answer of the server ends startBenchmark in its catch block
DriverHandleAbortsOnError(e) ==
  /\ driver.step = Sent(e)
  /\ pc = "done"
  /\ driver' = IF response.status = "error"
                 THEN [driver EXCEPT !.step = "failed", !.status = "Error",
                                     !.handled = Append(@, e)]
                 ELSE Continue(e, response.status)
  /\ pc' = "idle"
  /\ UNCHANGED <<variant, store, storedIds, runVars, reqs, results, sleeps,
                 batches, response, auditVars, issued, runs, faults, credVars>>

\* the response has arrived: result = await response.json();
\* updateResultRow(row, result)
DriverHandle(e) ==
  /\ driver.step = Sent(e)
  /\ pc = "done"
  /\ driver' = Continue(e, response.status)
  /\ pc' = "idle"
  /\ UNCHANGED <<variant, store, storedIds, runVars, reqs, results, sleeps,
                 batches, response, auditVars, issued, runs, faults, credVars>>

\* fetch rejects (the request did not reach the server): the catch block of
\* the benchmark writes an error row
DriverFetchFailed(e) ==
  /\ driver.step = Sent(e)
  /\ pc = "idle"
  /\ driver' = Continue(e, "error")
  /\ UNCHANGED <<variant, store, storedIds, pc, runVars, reqs, results, sleeps,
                 batches, response, auditVars, issued, runs, faults, credVars>>

\* this.updateProgress(100); this.updateStatus("GraphQL benchmark completed!")
DriverFinish ==
  /\ driver.step = "end"
  /\ driver' = [driver EXCEPT !.step = "completed", !.progress = 300,
                              !.status = "GraphQL benchmark completed!"]
  /\ UNCHANGED <<variant, store, storedIds, pc, runVars, reqs, results, sleeps,
                 batches, response, auditVars, issued, runs, faults, credVars>>

\* the server receives the request the page has sent
ServerReceives ==
  \/ /\ driver.step = "createSent"
     /\ \/ BenchmarkCreateClient(DriverCount, DriverBody)
        \/ BenchmarkCreateFetch(DriverCount)
  \/ /\ driver.step = "updateSent"
     /\ \/ BenchmarkUpdateClient(DriverCount, DriverBody)
        \/ BenchmarkUpdateFetch(DriverCount)
  \/ /\ driver.step = "deleteSent"
     /\ \/ BenchmarkDeleteClient(DriverCount, DriverBody)
        \/ BenchmarkDeleteFetch(DriverCount)
        \/ BenchmarkDeleteFixed(DriverCount)

\* the server works on the request
ServerWorks ==
  \/ ProductsSearched
  \/ Calibrated
  \/ ProductSearchAttempted
  \/ DispatchBatch
  \/ \E i \in Slots : \E r \in Responses(variant) : Respond(i, r)
  \/ JoinBatch
  \/ NextBatch
  \/ SendSummary

NextDriver ==
  \/ \E cfg \in DriverConfigs : StartBenchmark(cfg)
  \/ \E e \in {"create", "update", "delete"} :
       \/ DriverSkip(e)
       \/ DriverSend(e)
       \/ DriverHandle(e)
       \/ DriverFetchFailed(e)
  \/ DriverFinish
  \/ ServerReceives
  \/ ServerWorks

InitDriver == InitWith(0, Len(DriverOperations))

\* every step of the page and of the server that can be taken is taken in
\* the end: the event loops of both run on
SpecDriver == InitDriver /\ [][NextDriver]_vars /\ WF_vars(NextDriver)

(***************************************************************************)
(* Properties.                                                             *)
(***************************************************************************)
BatchEndpoints == {"create", "update", "delete", "deleteFixed"}

\* the run has left its batch loop and sent the response with the metrics
Finished == pc = "done" /\ endpoint \in BatchEndpoints /\ response.details = "summary"

RECURSIVE SumSizes(_)
SumSizes(bs) == IF bs = <<>> THEN 0 ELSE bs[1] + SumSizes(Tail(bs))

\* the retry limit the properties are stated for
RetryLimit == MaxFaults - 1

TransientAnswers == {"5xx", "gql", "network"}

\* C1: for one operation handleGraphQLRequest sends at most RetryLimit + 1
\* requests, even when the remote answers every attempt with HTTP 429.
\* The client generation calls itself again after every 429 without
\* counting: under SpecReq the request is sent a fifth time.
C1_AttemptsBounded == \A i \in Slots : reqs[i].attempts <= RetryLimit + 1

C4_RecommendedWithinBounds ==
  /\ summary.recommendedBatchSize >= 1
  /\ summary.recommendedBatchSize <= 100
  /\ summary.recommendedDelay >= 50
  /\ summary.recommendedDelay <= 5000

\* repeated summaries over a history of high usage have driven the
\* recommendation to the floor of the batch size and the cap of the delay
C4_Witness ==
  /\ rateLimitHistory # <<>>
  /\ summary.recommendedBatchSize = 1
  /\ summary.recommendedDelay = 5000

\* C5: a summary computed again over the same operation log and the same
\* rate-limit history equals the one computed before, recommendedBatchSize
\* and recommendedDelay included.
C5_SummaryIdempotent ==
  [][(summaryFresh /\ summaryFresh') => summary' = summary]_vars

\* C6: while an operation of a batch is in flight, every operation of the
\* batches before it has settled and its result is in the result list.
C6_BatchBarrier ==
  (pc = "batch" /\ endpoint \in BatchEndpoints) =>
    /\ Len(results) = batchStart
    /\ \A k \in 1..Len(results) : results[k].attempts >= 1

\* the second batch is in flight after a first batch of two operations
C6_Witness ==
  /\ pc = "batch"
  /\ Len(batches) = 2
  /\ batches[1] = 2
  /\ \E i \in BatchSlots : reqs[i].st = "inflight"

\* C7: an operation that fails settles with success = false and an error
\* message, and a run whose loop has started ends with one result for each
\* of its numProducts operations.
C7_FailureIsAResult ==
  /\ \A i \in Slots :
       (reqs[i].st = "done" /\ reqs[i].answered # "ok") =>
         /\ ~reqs[i].result.success
         /\ reqs[i].result.error # ""
  /\ (pc = "done" /\ endpoint \in BatchEndpoints /\ batches # <<>>) =>
       /\ response.details = "summary"
       /\ Len(results) = numProducts

\* the first operation of a finished run failed and an operation of a
\* later batch succeeded
C7_Witness ==
  /\ Finished
  /\ Len(batches) >= 2
  /\ ~results[1].success
  /\ results[Len(results)].success

C9_ThrottledIsRetried ==
  \A i \in Slots :
    reqs[i].answered = "429" =>
      /\ reqs[i].st \in {"waiting", "inflight"}
      /\ reqs[i].st = "waiting" => reqs[i].wait \in {2, 60}

\* usage reported by the last result of batch k of the run
UsageOfBatch(k) ==
  LET last == results[Min(k * batchSize, numProducts)]
  IN IF last.hasRL THEN UsagePct(last.cur, last.lim) ELSE 0

\* C10 as stated: after a batch that reported 95% usage the next batch is
\* strictly smaller and the delay strictly greater.
C10_SmallerBatchLongerDelay ==
  (endpoint \in BatchEndpoints /\ Len(sleeps) = Len(batches)) =>
    \A k \in 1..Len(batches) :
      (UsageOfBatch(k) = 95 /\ k < Len(batches)) =>
        /\ batches[k + 1] < batches[k]
        /\ sleeps[k] > delayBetweenBatches

\* C10 amended: after a batch that reported 95% usage the sleep is
\* min(2 * delay, 5000), and the next batch has the unchanged batch size, or
\* what is left of the run.
C10_DelayDoubledSizeKept ==
  (endpoint \in BatchEndpoints /\ Len(sleeps) = Len(batches)) =>
    \A k \in 1..Len(batches) :
      UsageOfBatch(k) = 95 =>
        /\ sleeps[k] = Min(2 * delayBetweenBatches, 5000)
        /\ k < Len(batches) =>
             batches[k + 1] = Min(batches[k], numProducts - k * batches[k])

\* a batch that reported 95% usage has been followed by a batch of the same
\* size
C10_Witness ==
  /\ endpoint \in BatchEndpoints
  /\ Len(batches) >= 2
  /\ Len(sleeps) = Len(batches)
  /\ UsageOfBatch(1) = 95
  /\ batches[2] = batches[1]
  /\ sleeps[1] = 2 * delayBetweenBatches

\* C11 (as claimed): for a calibrated leak rate of 2000 points per second
\* and a cost of 10 points per operation the computed configuration has a
\* batch size of at least 100 and a delay between batches of at most 20 ms.
C11_EnterpriseTier ==
  (pc = "configured" /\ calibratedLeakRate = 2000)
    => (batchSize >= 100 /\ delayBetweenBatches <= 20)

\* C11 (amended): for that leak rate the batch size is exactly 100 and the
\* delay is 600 ms; for every leak rate the batch size is within 5..100, the
\* delay is at most 5000 ms, and a delay below that cap is long enough for
\* the bucket to restore the cost of one batch.
C11_DelayRestoresBatchCost ==
  pc = "configured"
    => /\ batchSize \in 5..100
       /\ delayBetweenBatches \in 1..5000
       /\ delayBetweenBatches < 5000
            => delayBetweenBatches * calibratedLeakRate
                 > 10 * batchSize * 1000
       /\ calibratedLeakRate = 2000
            => (batchSize = 100 /\ delayBetweenBatches = 600)

C11_Witness ==
  /\ pc = "configured"
  /\ calibratedLeakRate = 2000
  /\ batchSize = 100
  /\ delayBetweenBatches = 600

\* C12: the summary of a run reports the number of successful results and
\* of all results (the others are the failures), the mean response time of
\* the successful results (0 without one), the sum of the cost of all
\* results, that sum divided by the number of results, and that sum divided
\* by the summed response time of the successful results (0 without one);
\* the three quotients are reported to the nearest hundredth.
C12_IsSuccess(k) == results[k].success

C12_Successes == {k \in 1..Len(results) : C12_IsSuccess(k)}

C12_Failures == {k \in 1..Len(results) : ~C12_IsSuccess(k)}

RECURSIVE C12_SumTime(_)
C12_SumTime(S) ==
  IF S = {} THEN 0
  ELSE LET k == CHOOSE x \in S : TRUE
       IN results[k].responseTime + C12_SumTime(S \ {k})

RECURSIVE C12_SumCost(_)
C12_SumCost(S) ==
  IF S = {} THEN 0
  ELSE LET k == CHOOSE x \in S : TRUE
       IN results[k].cost + C12_SumCost(S \ {k})

\* n hundredths is the quotient num / den to the nearest hundredth
C12_Nearest(n, num, den) ==
  /\ 2 * (100 * num - n * den) <= den
  /\ 2 * (n * den - 100 * num) <= den

C12_RunMetrics ==
  (pc = "done" /\ response.details = "summary")
    => LET ok == Cardinality(C12_Successes)
           all == 1..Len(results)
       IN /\ response.successCount = ok
          /\ response.totalCount - response.successCount
               = Cardinality(C12_Failures)
          /\ response.cost.total = C12_SumCost(all)
          /\ C12_Nearest(response.cost.average, C12_SumCost(all), Len(results))
          /\ IF ok = 0
               THEN response.responseTime = 0 /\ response.cost.perSecond = 0
               ELSE /\ C12_Nearest(response.responseTime,
                                   C12_SumTime(C12_Successes), 1000 * ok)
                    /\ C12_Nearest(response.cost.perSecond,
                                   1000 * C12_SumCost(all),
                                   C12_SumTime(C12_Successes))

\* a summary of a list with successes and a failure that cost something
C12_Witness ==
  /\ pc = "done"
  /\ response.details = "summary"
  /\ C12_Successes # {}
  /\ \E k \in C12_Failures : results[k].cost > 0
  /\ response.cost.total > C12_SumCost(C12_Successes)
  /\ response.responseTime > 0

\* C13: from the same recommended batch size, the controller update never
\* recommends a strictly larger batch size for a rate-limit history with a
\* higher usage percentage than for one with a lower usage percentage.
C13_UsageLevels == {0, 20, 39, 40, 41, 60, 79, 80, 81, 95, 100}

\* the history of the server with the usage of every sample set to p
C13_HistoryAt(p) ==
  [k \in 1..Len(rateLimitHistory) |-> [rateLimitHistory[k] EXCEPT !.pct = p]]

C13_BatchSizeAt(p) ==
  Recommended(summary, C13_HistoryAt(p)).recommendedBatchSize

C13_HigherUsageNotLargerBatch ==
  \A p1, p2 \in C13_UsageLevels :
    p1 <= p2 => C13_BatchSizeAt(p2) <= C13_BatchSizeAt(p1)

\* earlier updates have moved the batch size, the server has samples, and
\* the usage of the samples decides between three different sizes
C13_Witness ==
  /\ summary.recommendedBatchSize \notin {1, 10, 100}
  /\ rateLimitHistory # <<>>
  /\ C13_BatchSizeAt(100) < C13_BatchSizeAt(60)
  /\ C13_BatchSizeAt(60) < C13_BatchSizeAt(0)

\* C14 (as claimed): at the start of every benchmark run the controller
\* settings, the recommended batch size and delay, equal the configured
\* defaults 10 and 100, whatever earlier runs and summaries did to them.
C14_RunStarts == pc = "idle" /\ pc' \in {"loop", "search"}

C15_NonPositiveCountRejected ==
  (endpoint \in BatchEndpoints /\ count <= 0)
    => batches = <<>>

\* C16 (as claimed): an update or delete run that finds fewer target products
\* than requested, none included, proceeds over what is available and its
\* response reports the outcome against the requested count, not an error.
\* (The remote answers every request of these runs successfully.)
C16_Answered == pc = "done" /\ endpoint \in {"update", "delete"}

C17_ExpireAfterADay ==
  /\ lastGet.status = 200
       => /\ lastGet.found
          /\ lastGet.age <= Day
          /\ ~lastGet.removedBefore
  /\ (lastGet.found /\ lastGet.age <= Day) => lastGet.status = 200
  /\ (lastGet.found /\ lastGet.age > Day)
       => /\ lastGet.status = 404
          /\ <<lastGet.sessionId, lastGet.timestamp>> \in removed
  /\ \A e \in removed :
       ~(storedCredentials[e[1]].stored
           /\ storedCredentials[e[1]].timestamp = e[2])

\* a GET found an entry 25 hours old, answered 404 and removed it, and the
\* session id has been stored again since
C17_Witness ==
  /\ lastGet.found
  /\ lastGet.age = Day + 1
  /\ lastGet.status = 404
  /\ storedCredentials[lastGet.sessionId].stored
  /\ storedCredentials[lastGet.sessionId].timestamp > lastGet.timestamp

\* C18: a rate-limit report with a bucket capacity of 0 never leaves the
\* controller with an undefined usage value: every usage percentage that is
\* logged, summarised or compared is a number.
C18_UsageAlwaysDefined ==
  /\ \A k \in 1..Len(rateLimitHistory) : rateLimitHistory[k].pct # NaN
  /\ summary.peakRateLimitUsage # NaN
  /\ \A k \in 1..Len(results) :
       results[k].hasRL => UsagePct(results[k].cur, results[k].lim) # NaN

\* C19: whatever count the request carries, the number of operations a
\* benchmark run sets out to attempt is within 1..1000000.
C19_AttemptsWithinRange ==
  (endpoint \in BatchEndpoints /\ pc = "loop")
    => (numProducts >= 1 /\ numProducts <= 1000000)

\* a request for more than a million operations has been cut down
C19_Witness ==
  /\ endpoint \in BatchEndpoints
  /\ pc = "loop"
  /\ count > 1000000
  /\ numProducts = 10000

\* C20: every benchmark run performs exactly one calibration query before
\* its first batch and takes its batch size and delay from the leak rate the
\* query reports (100 when it reports none); a create run then dispatches
\* at least one batch.
C20_Calibrations ==
  {k \in 1..Len(operations) : operations[k].action = "rateLimitCheck"}

C20_CalibratedThenDispatched ==
  (endpoint \in BatchEndpoints /\ (pc = "done" \/ batches # <<>>))
    => /\ Cardinality(C20_Calibrations) = 1
       /\ calibratedLeakRate # 0
       /\ batches # <<>>
            => LET cfg == calculateOptimalBatchConfig(calibratedLeakRate, 10)
               IN /\ batchSize = cfg.batchSize
                  /\ delayBetweenBatches = cfg.delayBetweenBatches
       /\ (endpoint = "create" /\ pc = "done") => batches # <<>>

\* C21: each batch dispatches exactly min(batchSize, totalCount - processed)
\* operations, and at every moment of a run at most batchSize operations
\* are in flight (sent, or waiting to be sent again).
C21_InFlight == {i \in Slots : reqs[i].st \in {"inflight", "waiting"}}

C21_BoundedConcurrency ==
  (endpoint \in BatchEndpoints /\ pc \in {"loop", "batch", "sleep"})
    => /\ Cardinality(C21_InFlight) <= batchSize
       /\ \A k \in 1..Len(batches) :
            batches[k] = Min(batchSize, numProducts - (k - 1) * batchSize)
       /\ pc = "batch" =>
            Cardinality({i \in Slots : reqs[i].st # "none"})
              = batches[Len(batches)]

\* the last batch of a run is smaller than the batch size and all of it is
\* in flight
C21_Witness ==
  /\ endpoint \in BatchEndpoints
  /\ pc = "batch"
  /\ Len(batches) >= 2
  /\ batches[Len(batches)] < batchSize
  /\ Cardinality(C21_InFlight) = batches[Len(batches)]

\* C22: after a batch has settled the run sleeps only if more operations
\* remain; after its final batch it goes on to the summary without a sleep.
C22_NoSleepAfterFinalBatch ==
  /\ (endpoint \in BatchEndpoints /\ pc = "sleep") => BatchEnd < numProducts
  /\ Finished => Len(sleeps) = Len(batches) - 1

\* C23: every attempt of a request, whatever its outcome, appends exactly
\* one operation record and, when a store URL was given, exactly one
\* rate-limit sample to the audit log; no step of a run drops or repeats a
\* record, in whatever order the attempts of a batch are answered.
C23_Answered(i) ==
  reqs[i].st = "inflight" /\ reqs'[i].st \in {"waiting", "done"}

C23_EveryAttemptReportedOnce ==
  [][/\ \A i \in Slots :
          C23_Answered(i)
            => /\ Len(operations') = Len(operations) + 1
               /\ operations'[Len(operations')].action = reqs[i].op
               /\ reqs[i].withUrl
                    => Len(rateLimitHistory') = Len(rateLimitHistory) + 1
     /\ SubSeq(operations', 1, Len(operations)) = operations
     /\ SubSeq(rateLimitHistory', 1, Len(rateLimitHistory)) = rateLimitHistory
     /\ (\A i \in Slots : ~C23_Answered(i))
          => (operations' = operations /\ rateLimitHistory' = rateLimitHistory)
    ]_vars

\* C24 (as claimed): each run owns its controller state and its result
\* list: a run that has not yet dispatched a batch has an empty result
\* list, an audit log without records or samples of other runs, and the
\* initial recommended settings.
C24_InRun == endpoint \in BatchEndpoints /\ pc \in {"loop", "batch", "sleep"}

C25_SleepsWithinBounds ==
  endpoint \in BatchEndpoints
    => \A k \in 1..Len(sleeps) : sleeps[k] >= 50 /\ sleeps[k] <= 5000

\* C26: under sustained low usage (every sample of the window below 40%),
\* repeated controller updates bring the recommended batch size to 100 and
\* the recommended delay to 50 ms, whatever values they start from.
C26_AllLow ==
  /\ Len(rateLimitHistory) >= 10
  /\ \A k \in 1..Len(LastTen(rateLimitHistory)) :
       LET pct == LastTen(rateLimitHistory)[k].pct IN pct # NaN /\ pct < 40

C26_LowUsageConverges ==
  C26_AllLow ~> \/ ~C26_AllLow
                \/ /\ summary.recommendedBatchSize = 100
                   /\ summary.recommendedDelay = 50

\* C27: when the reported usage lies between 50% and 75% inclusive the
\* controller holds steady: an update of the audit summary whose usage (the
\* average of the last ten samples) lies in that range leaves the
\* recommended batch size and delay as they are, and the batch loop, after
\* a batch whose last result reports a usage in that range, sleeps exactly
\* the configured delay.
C27_InBand(pct) == pct # NaN /\ pct >= 50 /\ pct <= 75

C27_AverageInBand(h) ==
  LET recentHistory == LastTen(h)
  IN /\ Len(h) > 0
     /\ ~AnyNaN(recentHistory)
     /\ SumPct(recentHistory) >= 50 * Len(recentHistory)
     /\ SumPct(recentHistory) <= 75 * Len(recentHistory)

C27_LastOfBatch == reqs[BatchEnd - 1].result

C27_HoldSteady ==
  [][ /\ C27_AverageInBand(rateLimitHistory)
          => /\ summary'.recommendedBatchSize = summary.recommendedBatchSize
             /\ summary'.recommendedDelay = summary.recommendedDelay
      /\ (pc = "batch" /\ pc' = "sleep" /\ C27_LastOfBatch.hasRL
            /\ C27_InBand(UsagePct(C27_LastOfBatch.cur, C27_LastOfBatch.lim)))
          => sleeps' = Append(sleeps, delayBetweenBatches) ]_vars

\* the summary was computed on the present log, whose usage is in the
\* range, after an earlier update had moved the recommended settings; the
\* run sleeps after a batch that reported 60%
C27_Witness ==
  /\ pc = "sleep"
  /\ results # <<>>
  /\ C27_InBand(UsagePct(results[Len(results)].cur, results[Len(results)].lim))
  /\ sleeps = <<delayBetweenBatches>>
  /\ C27_AverageInBand(rateLimitHistory)
  /\ summaryFresh
  /\ summary.totalOperations = Len(operations)
  /\ summary.recommendedBatchSize # InitialSummary.recommendedBatchSize

C29_Analysed == pc = "done" /\ response.status = "success"

C29_PlanFromLeakRate ==
  C29_Analysed
    => LET L == results[1].leak
       IN /\ L = 0 => /\ calibratedLeakRate = 100
                      /\ response.details = "Standard Shopify"
          /\ L >= 2000 => response.details = "Shopify for Enterprise"
          /\ (1000 <= L /\ L < 2000) => response.details = "Shopify Plus"
          /\ (200 <= L /\ L < 1000) => response.details = "Advanced Shopify"
          /\ (0 < L /\ L < 200) => response.details = "Standard Shopify"

\* a leak rate of exactly 2000 has been analysed
C29_Witness ==
  /\ C29_Analysed
  /\ results[1].leak = 2000
  /\ response.details = "Shopify for Enterprise"

\* C30: without stored product ids the product search of the delete
\* endpoint is attempted at most 3 times and stops at the first attempt
\* that finds products; after failed attempt i (i = 0, 1) it waits
\* 1000 * 2^i ms, and after the last attempt it does not wait.
C30_Returned == pc = "fixedSearch" /\ reqs[0].st = "done"

C30_Found == reqs[0].result.success /\ Len(reqs[0].result.data) > 0

C31_SearchFoundProducts ==
  /\ endpoint = "deleteFixed"
  /\ pc = "done"
  /\ products = <<>>
  /\ retryCount = Len(searchWaits)

C31_FallbackToSearchResults ==
  C31_SearchFoundProducts
    => /\ response.code = 200
       /\ response.totalCount >= 1
       /\ response.totalCount <= Max(1, count)

\* C32: for every request body the batch loop of a run terminates: the
\* batch start index strictly increases on every iteration, so that a run
\* over N products dispatches at most N batches (ceil(N / batchSize) of
\* them), also when the request supplies a batch size of 0 or below.
C32_LoopAdvances ==
  [][ /\ (pc = "sleep" /\ pc' = "loop") => batchStart' > batchStart
      /\ endpoint \in BatchEndpoints => Len(batches') <= numProducts' ]_vars

\* C33: the initial configuration never plans to spend points faster than
\* the bucket refills: for every positive leak rate the batch size is
\* between 5 and 100, and when the delay is not capped at 5000 ms,
\* batchSize * costPerProduct * 1000 <= leakRate * delayBetweenBatches.
C33_NeverFasterThanRefill ==
  pc = "configured"
    => /\ 5 <= batchSize /\ batchSize <= 100
       /\ delayBetweenBatches < 5000
            => batchSize * 10 * 1000 <= calibratedLeakRate * delayBetweenBatches

\* a leak rate of 13 points per second: batches of 5 and a delay below the
\* cap
C33_Witness ==
  /\ pc = "configured"
  /\ calibratedLeakRate = 13
  /\ batchSize = 5
  /\ delayBetweenBatches = 4617

\* C34: for a fixed configured delay the sleep after a batch does not
\* decrease with the usage the batch reports: low usage (< 40%) never
\* sleeps longer than mid usage, which never sleeps longer than high usage
\* (> 80%).
C34_UsageLevels == {0, 39, 40, 60, 80, 81, 95}

C34_ResultAt(p) == [NoResult EXCEPT !.success = TRUE, !.hasRL = TRUE,
                                    !.cur = p, !.lim = 100]

C34_SleepMonotoneInUsage ==
  (endpoint \in BatchEndpoints /\ pc \in {"loop", "batch", "sleep"})
    => \A p, q \in C34_UsageLevels :
         p <= q => AdaptiveDelay(C34_ResultAt(p), delayBetweenBatches)
                     <= AdaptiveDelay(C34_ResultAt(q), delayBetweenBatches)

\* C35: no response of GET /api/stored-credentials/:sessionId reveals the
\* stored access token: two credential stores that differ only in the
\* access token kept for a session are answered identically.
C35_WithToken(s, tok) == [storedCredentials[s] EXCEPT !.accessToken = tok]

C35_TokenNotRevealed ==
  /\ \A s \in SessionIds, tok \in AccessTokens :
       storedCredentials[s].stored
         => StoredCredentialsAnswer(s, C35_WithToken(s, tok), now)
              = StoredCredentialsAnswer(s, storedCredentials[s], now)
  /\ (lastGet.status = 200 /\ storedCredentials[lastGet.sessionId].stored
       /\ storedCredentials[lastGet.sessionId].timestamp = lastGet.timestamp)
       => \A tok \in AccessTokens :
            lastGet.body = credentialsBody(lastGet.sessionId,
                                           C35_WithToken(lastGet.sessionId, tok))

\* two sessions hold different tokens, and the credentials of one of them
\* have been answered
C35_Witness ==
  /\ \A s \in SessionIds : storedCredentials[s].stored
  /\ storedCredentials["s1"].accessToken # storedCredentials["s2"].accessToken
  /\ lastGet.status = 200
  /\ lastGet.body = credentialsBody(lastGet.sessionId,
                                    storedCredentials[lastGet.sessionId])

\* C36: the audit log is append-only and its summary is consistent: the
\* operation log never shrinks and a logged entry never changes, and after
\* every updateAuditSummary totalOperations = successfulOperations +
\* failedOperations = the number of logged operations.
C36_AppendOnlyAndConsistent ==
  [][ /\ Len(operations') >= Len(operations)
      /\ SubSeq(operations', 1, Len(operations)) = operations
      /\ summaryFresh'
          => /\ summary'.totalOperations = Len(operations')
             /\ summary'.totalOperations
                  = summary'.successfulOperations + summary'.failedOperations ]_vars

\* the summary was computed on a log of a successful and a failed operation
C36_Witness ==
  /\ summaryFresh
  /\ Len(operations) = 2
  /\ summary.totalOperations = 2
  /\ summary.successfulOperations = 1
  /\ summary.failedOperations = 1

\* C37: startBenchmark runs the enabled benchmarks strictly in the order
\* create, update, delete, sends each request only after the response of
\* the benchmark before has been handled, and always reaches its final
\* state (progress 100%, status completed), whether the benchmarks succeed
\* or fail.
C37_Rank(e) == CASE e = "create" -> 1 [] e = "update" -> 2 [] OTHER -> 3

C37_InOrder ==
  /\ \A i, j \in 1..Len(driver.sent) :
       i < j => C37_Rank(driver.sent[i]) < C37_Rank(driver.sent[j])
  /\ \A i \in 1..Len(driver.sent) : driver.config[driver.sent[i]]
  /\ Len(driver.handled) <= Len(driver.sent)
  /\ Len(driver.sent) <= Len(driver.handled) + 1
  /\ driver.handled = SubSeq(driver.sent, 1, Len(driver.handled))
  /\ pc \notin {"idle", "done"}
       => /\ Len(driver.sent) = Len(driver.handled) + 1
          /\ driver.step = Sent(driver.sent[Len(driver.sent)])

C37_Final ==
  /\ driver.step = "completed"
  /\ driver.progress = 300
  /\ driver.status = "GraphQL benchmark completed!"
  /\ driver.handled = driver.sent
  /\ \A e \in {"create", "update", "delete"} :
       driver.config[e] <=> \E i \in 1..Len(driver.sent) : driver.sent[i] = e

====
